---- MODULE Spec2Model ----
(***************************************************************************)
(* Model of the ORBIT agent: discovery -> draft -> chat approval ->        *)
(* publish, with the flat-file state (state.json, replied_tweets.json,     *)
(* pending_approvals.json).                                                *)
(*                                                                         *)
(* Strings are sequences of one-character strings; "a" stands for any      *)
(* non-whitespace character.                                               *)
(***************************************************************************)
EXTENDS Integers, Sequences, FiniteSets, TLC

VARIABLES
    wr_in,      \* reply_writer: the arguments of one write_reply call
    wr_out,     \* reply_writer: what that call returned
    pt_in,      \* poster: the arguments and the environment of one post_tweet call
    pt_out,     \* poster: what that call returned and the requests it sent
    cl_in,      \* collectors: what the search provider and the scraper deliver
    cl_out,     \* collectors: what each entry point returned
    st_in,      \* state store: a state file as found on disk, and a new entry
    st_out,     \* state store: what the load returned and what the save wrote
    ov          \* overlapping invocations of process_approved_drafts: position
                \* and local variables of each

VARIABLES
    state_json,     \* main.py: state.json, the list of replied tweet ids
    replied_file,   \* telegram_processor.py: replied_tweets.json
    pending_file,   \* telegram_processor.py: pending_approvals.json
    offset_file,    \* tele_router.py: .tele_offset.json (0 stands for None)
    tg_log,         \* chat server: every update so far; update_id is the index
    tg_confirmed,   \* chat server: updates up to this id are confirmed
    tg_msgs,        \* chat server: messages the bot sent; message_id is the index
    tg_acks,        \* chat server: update ids answered with answer_callback_query
    program,        \* the program this deployment runs
    flow,           \* the program that is running, "idle" between runs
    pc,             \* its position
    loc,            \* its local variables
    runs,           \* number of program invocations so far
    pt_count,       \* history: number of post_tweet invocations, per tweet id
    approvals       \* history: number of approve results of the gate, per tweet id

writerVars == <<wr_in, wr_out>>
posterVars == <<pt_in, pt_out>>
collectorVars == <<cl_in, cl_out>>
storeVars == <<st_in, st_out>>
pureVars == <<wr_in, wr_out, pt_in, pt_out, cl_in, cl_out, st_in, st_out, ov, program>>
fileVars == <<state_json, replied_file, pending_file, offset_file>>
tgVars == <<tg_log, tg_confirmed, tg_msgs, tg_acks>>
histVars == <<pt_count, approvals>>
flowVars == <<fileVars, tgVars, histVars, program, flow, pc, loc, runs>>
vars == <<wr_in, wr_out, pt_in, pt_out, cl_in, cl_out, st_in, st_out, ov, flowVars>>

Min(a, b) == IF a < b THEN a ELSE b

(***************************************************************************)
(* reply_writer.py                                                         *)
(***************************************************************************)
\* the slice bound of write_reply's return statement
MAX_LEN == 200

\* str.isspace for the characters of the model
IsWs(c) == c \in {" ", "\n", "\t"}

Word(n) == [i \in 1..n |-> "a"]
Pad(n) == [i \in 1..n |-> " "]

RECURSIVE FromWords(_)
\* a one-line text whose words have the given lengths
FromWords(lens) ==
    IF lens = <<>> THEN <<>>
    ELSE IF Len(lens) = 1 THEN Word(lens[1])
    ELSE Word(lens[1]) \o <<" ">> \o FromWords(Tail(lens))

\* the canned reply for a blank post (58 characters, 11 words)
FALLBACK_REPLY == FromWords(<<3, 4, 2, 5, 2, 9, 7, 3, 3, 6, 4>>)

\* the positions of s that hold a non-whitespace character
Solid(s) == {i \in 1..Len(s) : ~IsWs(s[i])}

SetMin(S) == CHOOSE x \in S : \A y \in S : x <= y
SetMax(S) == CHOOSE x \in S : \A y \in S : y <= x

\* str.strip()
Strip(s) ==
    IF Solid(s) = {} THEN <<>>
    ELSE SubSeq(s, SetMin(Solid(s)), SetMax(Solid(s)))

\* the positions where a maximal run of non-whitespace starts
WordStarts(s) == {i \in Solid(s) : i = 1 \/ IsWs(s[i - 1])}

\* the last position of the run that starts at i
WordEnd(s, i) == SetMin({j \in i..Len(s) : j = Len(s) \/ IsWs(s[j + 1])})

\* the k-th smallest element of S
Nth(S, k) == CHOOSE x \in S : Cardinality({y \in S : y < x}) = k - 1

\* str.split() without arguments: the maximal runs of non-whitespace
Split(s) ==
    [k \in 1..Cardinality(WordStarts(s)) |->
        SubSeq(s, Nth(WordStarts(s), k), WordEnd(s, Nth(WordStarts(s), k)))]

RECURSIVE Join(_)
\* " ".join(words)
Join(words) ==
    IF words = <<>> THEN <<>>
    ELSE IF Len(words) = 1 THEN words[1]
    ELSE words[1] \o <<" ">> \o Join(Tail(words))

\* s[:n]
Slice(s, n) == SubSeq(s, 1, Min(n, Len(s)))

\* resp.choices[0].message.content or ""
ContentOrEmpty(completion) ==
    IF completion.kind = "text" THEN completion.content ELSE <<>>

\* faulty variant: the return statement without its [:200] slice
write_reply_no_slice(post_text, completion) ==
    IF Strip(post_text) = <<>>
    THEN [raised |-> FALSE, text |-> FALLBACK_REPLY]
    ELSE IF completion.kind = "error"
    THEN [raised |-> TRUE, text |-> <<>>]
    ELSE [raised |-> FALSE,
          text |-> Join(Split(Strip(ContentOrEmpty(completion))))]

\* write_reply(post_text), with the answer of the generation service as a
\* second argument: kind "error" (the call raises), "none" (content is
\* None) or "text"
write_reply(post_text, completion) ==
    IF Strip(post_text) = <<>>
    THEN [raised |-> FALSE, text |-> FALLBACK_REPLY]
    ELSE IF completion.kind = "error"
    THEN [raised |-> TRUE, text |-> <<>>]
    ELSE [raised |-> FALSE,
          text |-> Slice(Join(Split(Strip(ContentOrEmpty(completion)))), MAX_LEN)]

(***************************************************************************)
(* Inputs of the reply_writer specification                                *)
(***************************************************************************)
\* longest word of a model completion; beyond MAX_LEN so the slice cuts
MaxWord == 201
\* longest run of padding around and between the words
MaxPad == 2

WordLens == {0, 1, MAX_LEN - 1, MAX_LEN} \cup {MaxWord}
PadLens == {0, MaxPad}
Seps == {<<>>, <<" ">>, <<" ", "\n", "\t">>}

PostTexts == {<<>>, Pad(MaxPad), <<"\n">>, Word(2), <<" ">> \o Word(2) \o <<"\n">>}

CompletionTexts ==
    { Pad(l) \o Word(m) \o sep \o Word(j) \o Pad(t) :
        l \in PadLens, m \in WordLens, sep \in Seps, j \in {0, 2}, t \in PadLens }

Completions ==
    {[kind |-> "error", content |-> <<>>], [kind |-> "none", content |-> <<>>]}
    \cup {[kind |-> "text", content |-> c] : c \in CompletionTexts}

(***************************************************************************)
(* poster.py                                                               *)
(*                                                                         *)
(* The environment of one post_tweet call: creds (are the four X_*         *)
(* variables all set), token (how the token endpoint behaves) and script   *)
(* (the answers of the create-post endpoint, request by request; the last  *)
(* answer repeats for ever).                                               *)
(***************************************************************************)
\* the k-th answer of an endpoint that follows the script
Answer(script, k) == script[Min(k, Len(script))]

Http(status) == [kind |-> "http", status |-> status]
\* requests.post raised a RequestException
NetworkError == [kind |-> "exception", status |-> 0]
\* the status is 201 and response.json() raised
BadJson == [kind |-> "badjson", status |-> 201]

\* what the body of a try block raises for the answer a
ExceptionOf(a) ==
    IF a.kind = "exception" THEN "RequestException"
    ELSE IF a.kind = "badjson" THEN "JSONDecodeError"
    ELSE "none"

\* the "error" entry of the dictionary _post_tweet_with_token returns
ErrorOf(a) ==
    IF a.kind = "exception" THEN "request"
    ELSE IF a.kind = "badjson" THEN "json"
    ELSE IF a.status # 201 THEN "status"
    ELSE "none"

\* faulty variant: no except clause
PosterCatches_nothing == {}

\* the except clauses of _get_access_token (lines 83-88) and of
\* _post_tweet_with_token (lines 137-144)
PosterCatches == {"RequestException", "JSONDecodeError"}

\* _get_access_token: the token, or None
\*   "ok"        status 200, body holds access_token
\*   "no_token"  status 200, body without access_token
\*   "http"      any other status
\*   "exception" RequestException or JSONDecodeError
_get_access_token(token) == IF token = "ok" THEN "token" ELSE "None"

\* faulty variant: the request is re-submitted after a 429/5xx answer, up to 3 times
_post_tweet_with_token_retry(text, access_token, in_reply_to, script) ==
    LET transient(a) == a.kind = "http" /\ a.status \in {429, 500, 502, 503, 504}
        n == IF ~transient(Answer(script, 1)) THEN 1
             ELSE IF ~transient(Answer(script, 2)) THEN 2
             ELSE 3
        a == Answer(script, n)
    IN  [success |-> a.kind = "http" /\ a.status = 201,
         raised |-> FALSE,
         error |-> ErrorOf(a),
         status |-> a.status,
         sent |-> [i \in 1..n |-> [text |-> text, in_reply_to |-> in_reply_to]]]

\* _post_tweet_with_token: one POST of the payload; "sent" lists the
\* create-post requests the call issued
_post_tweet_with_token(text, access_token, in_reply_to, script) ==
    LET a == Answer(script, 1)
    IN  [success |-> a.kind = "http" /\ a.status = 201,
         raised |-> ExceptionOf(a) \notin PosterCatches \cup {"none"},
         error |-> ErrorOf(a),
         status |-> a.status,
         sent |-> <<[text |-> text, in_reply_to |-> in_reply_to]>>]

\* post_tweet(text, in_reply_to)
post_tweet(text, in_reply_to, env) ==
    IF ~env.creds
    THEN [success |-> FALSE, raised |-> FALSE, error |-> "missing_env",
          status |-> 0, sent |-> <<>>]
    ELSE IF _get_access_token(env.token) = "None"
    THEN [success |-> FALSE,
          raised |-> env.token = "exception" /\ "RequestException" \notin PosterCatches,
          error |-> "no_token",
          status |-> 0, sent |-> <<>>]
    ELSE _post_tweet_with_token(text, _get_access_token(env.token), in_reply_to, env.script)

(***************************************************************************)
(* Inputs of the poster specification                                      *)
(***************************************************************************)
\* longest script of create-post answers
MaxScript == 3

TransientStatuses == {429, 500, 502, 503, 504}
Answers == {Http(s) : s \in {201, 400, 403} \cup TransientStatuses}
             \cup {NetworkError, BadJson}
TokenOutcomes == {"ok", "no_token", "http", "exception"}

RECURSIVE SeqsUpTo(_, _)
\* the non-empty sequences over S of length at most n
SeqsUpTo(S, n) ==
    IF n = 0 THEN {}
    ELSE {<<x>> : x \in S}
         \cup {Append(q, x) : q \in SeqsUpTo(S, n - 1), x \in S}

Scripts == SeqsUpTo(Answers, MaxScript)

NoCall == [called |-> FALSE]

(***************************************************************************)
(* Bounds and inputs of the workflow specification                         *)
(***************************************************************************)
\* program invocations in one behaviour
MaxRuns == 3
\* button clicks in one behaviour
MaxClicks == 1
\* text messages to the router in one behaviour
MaxTexts == 1
\* posts one collection returns
MaxBatch == 2

\* main.py with and without MANUAL_TWEET_ID, telegram_processor.py, tele_router.py
Programs == {"main", "manual", "processor", "router"}

Ids == {"t1", "t2"}
\* Python's None where a tweet id is expected
NONE == "<None>"
IdKeys == Ids \cup {"None"}

Range(q) == {q[i] : i \in 1..Len(q)}
Max(a, b) == IF a > b THEN a ELSE b

Posts == [tweet_id : Ids, handle : {"h"}, text : {Word(2)}]

\* what a collection returns (x_search.search_recent_topics, else
\* scraper.search_posts): at most MaxBatch posts, no id twice, no empty id
Batches ==
    {<<>>} \cup {b \in SeqsUpTo(Posts, MaxBatch) :
                    \A i, j \in 1..Len(b) : i # j => b[i].tweet_id # b[j].tweet_id}

\* the generation service raises, answers with whitespace only, or answers
\* with a text
WfCompletions ==
    {[kind |-> "error", content |-> <<>>],
     [kind |-> "text", content |-> Pad(MaxPad)],
     [kind |-> "text", content |-> Word(2) \o Pad(MaxPad) \o Word(1)]}

\* the publish provider works, rate-limits the first request, or the
\* credentials are missing
WfEnvs ==
    {[creds |-> TRUE, token |-> "ok", script |-> <<Http(201)>>],
     [creds |-> TRUE, token |-> "ok", script |-> <<Http(429), Http(201)>>],
     [creds |-> FALSE, token |-> "ok", script |-> <<Http(201)>>]}

(***************************************************************************)
(* A state file on disk                                                    *)
(***************************************************************************)
\* the file does not exist
Missing == [kind |-> "missing", value |-> <<>>]

\* a file json.load rejects: an empty file, or the dump of the list cut
\* short
Malformed(list) == [kind |-> "malformed", value |-> list]

\* the file json.dump(list, f) writes
JsonFile(list) == [kind |-> "json", value |-> list]

\* with open(path, 'r') as f: json.load(f)
json_load(file) ==
    IF file.kind = "missing" THEN [raised |-> "FileNotFoundError", value |-> <<>>]
    ELSE IF file.kind = "malformed" THEN [raised |-> "JSONDecodeError", value |-> <<>>]
    ELSE [raised |-> "none", value |-> file.value]

\* faulty variant: only the missing file is handled
StoreCatches_missing_only == {"FileNotFoundError"}

\* the except clauses of load_state (main.py lines 21-24), load_pending
\* and load_replied (telegram_processor.py lines 30 and 45)
StoreCatches == {"FileNotFoundError", "JSONDecodeError"}

\* the body the three loaders share: the list, [] for a caught exception
load_list(file) ==
    LET r == json_load(file)
    IN  IF r.raised = "none" THEN [raised |-> FALSE, value |-> r.value]
        ELSE IF r.raised \in StoreCatches THEN [raised |-> FALSE, value |-> <<>>]
        ELSE [raised |-> TRUE, value |-> <<>>]

\* main.save_state(tweet_id) on a given state.json
save_state_at(file, tweet_id) ==
    LET r == load_list(file)
    IN  IF r.raised THEN [raised |-> TRUE, file |-> file]
        ELSE [raised |-> FALSE, file |-> JsonFile(Append(r.value, tweet_id))]

\* telegram_processor.save_replied(tweet_id) on a given replied_tweets.json
save_replied_at(file, tweet_id) ==
    LET r == load_list(file)
    IN  IF r.raised THEN [raised |-> TRUE, file |-> file]
        ELSE IF tweet_id \in Range(r.value) THEN [raised |-> FALSE, file |-> file]
        ELSE [raised |-> FALSE, file |-> JsonFile(Append(r.value, tweet_id))]

\* telegram_processor.save_pending(pending)
save_pending(pending) == JsonFile(pending)

(***************************************************************************)
(* The state files of the workflow: each holds the list its last save      *)
(* wrote                                                                   *)
(***************************************************************************)
\* main.load_state
load_state == load_list(JsonFile(state_json)).value

\* main.save_state(tweet_id): the new content of state.json
save_state(tweet_id) == save_state_at(JsonFile(state_json), tweet_id).file.value

\* telegram_processor.load_replied
load_replied == load_list(JsonFile(replied_file)).value

\* telegram_processor.load_pending
load_pending == load_list(JsonFile(pending_file)).value

\* telegram_processor.save_replied(tweet_id): the new content of
\* replied_tweets.json
save_replied(tweet_id) == save_replied_at(JsonFile(replied_file), tweet_id).file.value

\* faulty variant: the list is left as it is
Remove_nothing(q, x) == q

\* list.remove(x): q without its first element equal to x
Remove(q, x) ==
    LET k == SetMin({i \in 1..Len(q) : q[i] = x})
    IN  SubSeq(q, 1, k - 1) \o SubSeq(q, k + 1, Len(q))

\* the three lists as they are on disk
Files == [state_json |-> state_json, replied |-> replied_file, pending |-> pending_file]

(***************************************************************************)
(* Overlapping invocations                                                 *)
(***************************************************************************)
\* invocations of process_approved_drafts that may run at the same time
MaxOverlap == 3

Procs == 1..MaxOverlap

\* loaded and calls are history: the list as load_pending returned it and
\* the number of post_tweet calls of the invocation
OvInit ==
    [p \in Procs |-> [pc |-> "start", loaded |-> <<>>, pending |-> <<>>, batch |-> <<>>,
                      replied |-> <<>>, draft |-> [tweet_id |-> NONE, text |-> <<>>],
                      calls |-> 0]]

(***************************************************************************)
(* Local variables of a run                                                *)
(***************************************************************************)
NoApproval == [action |-> "none", tweet_id |-> NONE, text |-> <<>>]
NoResp == [called |-> FALSE, success |-> FALSE, error |-> "none", text |-> <<>>,
           in_reply_to |-> NONE]
NoDraft == [tweet_id |-> NONE, text |-> <<>>]
NoSnap == [files |-> [state_json |-> <<>>, replied |-> <<>>, pending |-> <<>>],
           calls |-> [i \in IdKeys |-> 0]]

LocInit ==
    [posts |-> <<>>,        \* what the collection returned
     replied_ids |-> <<>>,  \* the replied list as loaded
     pending |-> <<>>,      \* the pending list as loaded
     drafted |-> <<>>,      \* ids of the posts passed to write_reply
     failed |-> <<>>,       \* ids of the posts whose write_reply call raised
     approval |-> NoApproval,
     resp |-> NoResp,       \* the last post_tweet call and its result
     draft |-> NoDraft,     \* process_approved_drafts: the draft being posted
     start |-> NoSnap,      \* the files when the run started
     snap |-> NoSnap,       \* the files when send_drafts was called
     g_drafts |-> <<>>, g_msg |-> 0, g_elapsed |-> 0, g_offset |-> 0,
     g_ret |-> "none",
     r_batch |-> <<>>, r_i |-> 0, r_new |-> 0, r_id |-> NONE]

Snapshot == [files |-> Files, calls |-> pt_count]

(***************************************************************************)
(* telegram_bot.py: send_drafts_async                                      *)
(***************************************************************************)
\* while time.time() - start < 60
WINDOW == 60
\* bot.get_updates(offset=offset, timeout=10)
LONG_POLL == 10
\* await asyncio.sleep(2)
SLEEP == 2

\* f"approve:{tweet_id}" read back with data.split(":")[1]
CallbackId(tweet_id) == IF tweet_id = NONE THEN "None" ELSE tweet_id

\* the server's answer to get_updates(offset): the updates it confirms and
\* the batch it returns
Confirmed(offset) == IF offset = 0 THEN tg_confirmed ELSE Max(tg_confirmed, offset - 1)
get_updates(offset) == SubSeq(tg_log, Confirmed(offset) + 1, Len(tg_log))

\* faulty variant: any button click counts, whatever message it was made on
GateMatches_any_message(upd, msg_id) == upd.kind = "callback"

\* upd.callback_query and upd.callback_query.message.message_id == msg.message_id
GateMatches(upd, msg_id) == upd.kind = "callback" /\ upd.message_id = msg_id

\* faulty variant: an approve carries the last draft listed
GateResult_last(upd, drafts) ==
    IF upd.action = "approve"
    THEN [action |-> "approve", tweet_id |-> drafts[Len(drafts)].tweet_id,
          text |-> drafts[Len(drafts)].text]
    ELSE [action |-> "skip", tweet_id |-> NONE, text |-> <<>>]

\* lines 36-39: the result of an interaction on the gate's message
GateResult(upd, drafts) ==
    IF upd.action = "approve"
    THEN [action |-> "approve", tweet_id |-> upd.id, text |-> drafts[1].text]
    ELSE [action |-> "skip", tweet_id |-> NONE, text |-> <<>>]

\* the record of one post_tweet call
Called(text, in_reply_to, r) ==
    [called |-> TRUE, success |-> r.success, error |-> r.error, text |-> text,
     in_reply_to |-> in_reply_to]

\* lines 15-24: one message that lists the drafts, with the two buttons of
\* the head draft
GateSend ==
    /\ pc = "gate_send"
    /\ tg_msgs' = Append(tg_msgs, [gate |-> TRUE, key |-> CallbackId(loc.g_drafts[1].tweet_id)])
    /\ loc' = [loc EXCEPT !.g_msg = Len(tg_msgs) + 1, !.g_elapsed = 0, !.g_offset = 0,
                          !.snap = Snapshot]
    /\ pc' = "gate_poll"
    /\ UNCHANGED <<fileVars, tg_log, tg_confirmed, tg_acks, histVars, flow, runs>>
    /\ UNCHANGED pureVars

\* faulty variant: the clock of the loop stands still
Elapsed_frozen(elapsed, batch) == elapsed

\* time.time() - start after one more turn of the loop that did not
\* return: get_updates waits LONG_POLL when it has nothing to deliver, then
\* the loop sleeps
Elapsed(elapsed, batch) == elapsed + (IF batch = <<>> THEN LONG_POLL ELSE 0) + SLEEP

\* lines 29-40: one turn of the polling loop
GatePoll ==
    /\ pc = "gate_poll"
    /\ loc.g_elapsed < WINDOW
    /\ LET batch == get_updates(loc.g_offset)
           own == {k \in 1..Len(batch) : GateMatches(batch[k], loc.g_msg)}
       IN  /\ tg_confirmed' = Confirmed(loc.g_offset)
           /\ IF own # {}
              THEN LET upd == batch[SetMin(own)]
                       res == GateResult(upd, loc.g_drafts)
                   IN  /\ tg_acks' = Append(tg_acks, upd.update_id)
                       /\ loc' = [loc EXCEPT !.approval = res,
                                             !.g_offset = upd.update_id + 1]
                       /\ approvals' =
                            IF res.action = "approve"
                            THEN [approvals EXCEPT ![res.tweet_id] = @ + 1]
                            ELSE approvals
                       /\ pc' = loc.g_ret
              ELSE /\ loc' = [loc EXCEPT
                        !.g_offset = IF batch = <<>> THEN @
                                     ELSE batch[Len(batch)].update_id + 1,
                        !.g_elapsed = Elapsed(@, batch)]
                   /\ UNCHANGED <<tg_acks, approvals, pc>>
    /\ UNCHANGED <<fileVars, tg_log, tg_msgs, pt_count, flow, runs>>
    /\ UNCHANGED pureVars

\* line 41: the window is over
GateTimeout ==
    /\ pc = "gate_poll"
    /\ loc.g_elapsed >= WINDOW
    /\ loc' = [loc EXCEPT !.approval = [action |-> "timeout", tweet_id |-> NONE, text |-> <<>>]]
    /\ pc' = loc.g_ret
    /\ UNCHANGED <<fileVars, tgVars, histVars, flow, runs>>
    /\ UNCHANGED pureVars

(***************************************************************************)
(* The human in the chat                                                   *)
(***************************************************************************)
\* a click on one of the two buttons of a message the bot sent, the n-th
\* at most
ClickUpTo(n) ==
    /\ Cardinality({i \in 1..Len(tg_log) : tg_log[i].kind = "callback"}) < n
    /\ \E m \in 1..Len(tg_msgs), a \in {"approve", "skip"} :
        /\ tg_msgs[m].gate
        /\ tg_log' = Append(tg_log,
                [update_id |-> Len(tg_log) + 1, kind |-> "callback", message_id |-> m,
                 action |-> a, id |-> tg_msgs[m].key])
    /\ UNCHANGED <<fileVars, tg_confirmed, tg_msgs, tg_acks, histVars, flow, pc, loc, runs>>
    /\ UNCHANGED pureVars

Click == ClickUpTo(MaxClicks)

\* a text message: the link of a tweet ("url"), any other text ("plain"),
\* or a message in another chat ("foreign"); only the router reads them
UserText ==
    /\ program = "router"
    /\ Cardinality({i \in 1..Len(tg_log) : tg_log[i].kind = "message"}) < MaxTexts
    /\ \E k \in {"url", "plain", "foreign"}, t \in Ids :
        /\ k = "url" \/ t = "t1"
        /\ tg_log' = Append(tg_log,
                [update_id |-> Len(tg_log) + 1, kind |-> "message", message_id |-> 0,
                 action |-> k, id |-> IF k = "url" THEN t ELSE "None"])
    /\ UNCHANGED <<fileVars, tg_confirmed, tg_msgs, tg_acks, histVars, flow, pc, loc, runs>>
    /\ UNCHANGED pureVars

(***************************************************************************)
(* Drafting                                                                *)
(***************************************************************************)
RECURSIVE Candidates_abort(_, _, _)
\* faulty variant: the first write_reply call that raises ends the loop
Candidates_abort(drafted, comps, i) ==
    IF i > Len(drafted) THEN <<>>
    ELSE LET r == write_reply(drafted[i].text, comps[i])
         IN  IF r.raised THEN <<>>
             ELSE <<[tweet_id |-> drafted[i].tweet_id, author |-> drafted[i].handle,
                     text |-> r.text]>>
                  \o Candidates_abort(drafted, comps, i + 1)

RECURSIVE Candidates(_, _, _)
\* main.py lines 103-118, telegram_processor.py lines 100-117: one
\* candidate per drafted post whose write_reply call returned; comps[i] is
\* the generation service's answer for the i-th of them
Candidates(drafted, comps, i) ==
    IF i > Len(drafted) THEN <<>>
    ELSE LET r == write_reply(drafted[i].text, comps[i])
         IN  (IF r.raised THEN <<>>
              ELSE <<[tweet_id |-> drafted[i].tweet_id, author |-> drafted[i].handle,
                      text |-> r.text]>>)
             \o Candidates(drafted, comps, i + 1)

IdsOf(q) == [i \in 1..Len(q) |-> q[i].tweet_id]

\* the except branches of the loop (main.py lines 116-118,
\* telegram_processor.py lines 115-117): the ids whose write_reply call raised
FailedIds(drafted, comps) ==
    LET bad == {i \in 1..Len(drafted) : write_reply(drafted[i].text, comps[i]).raised}
    IN  [k \in 1..Cardinality(bad) |-> drafted[Nth(bad, k)].tweet_id]

\* one post_tweet call: the counter of the tweet id and the call's record
DoPost(text, in_reply_to, env) ==
    /\ pt_count' = [pt_count EXCEPT ![CallbackId(in_reply_to)] = @ + 1]
    /\ loc' = [loc EXCEPT !.resp = Called(text, in_reply_to, post_tweet(text, in_reply_to, env))]

(***************************************************************************)
(* main.py: main, the collection path                                      *)
(***************************************************************************)
\* faulty variant: the replied list is not consulted
main_skips_never(tweet_id, replied_ids) == FALSE

\* line 99: tweet_id in replied_ids
main_skips(tweet_id, replied_ids) == tweet_id \in Range(replied_ids)

\* lines 95-101: the posts that reach write_reply
main_drafted(posts, replied_ids) ==
    SelectSeq(posts, LAMBDA p : ~main_skips(p.tweet_id, replied_ids))

\* faulty variant: a timeout is posted like an approval
main_approved_unless_skip(approved) == approved.action # "skip"

\* line 135: approved.get("action") == "approve"
main_approved(approved) == approved.action = "approve"

\* faulty variant: the test of line 150 inverted
main_missing_inverted(approved_text, approved_tweet_id) ==
    ~(approved_text = <<>> \/ approved_tweet_id = NONE)

\* line 150: not approved_text or not approved_tweet_id
main_missing(approved_text, approved_tweet_id) ==
    approved_text = <<>> \/ approved_tweet_id = NONE

\* lines 72-85: the search; an empty result or an exception ends the run
MainStart ==
    /\ program = "main"
    /\ flow = "idle"
    /\ runs < MaxRuns
    /\ \E posts \in Batches :
        /\ loc' = [LocInit EXCEPT !.posts = posts, !.start = Snapshot]
        /\ pc' = IF posts = <<>> THEN "done" ELSE "m_draft"
    /\ flow' = "main"
    /\ runs' = runs + 1
    /\ UNCHANGED <<fileVars, tgVars, histVars>>
    /\ UNCHANGED pureVars

\* lines 87-124: load the state and draft the candidates
MainDraft ==
    /\ flow = "main" /\ pc = "m_draft"
    /\ LET drafted == main_drafted(loc.posts, load_state)
       IN  \E comps \in [1..Len(drafted) -> WfCompletions] :
            LET cands == Candidates(drafted, comps, 1)
            IN  /\ loc' = [loc EXCEPT !.replied_ids = load_state,
                                      !.drafted = IdsOf(drafted),
                                      !.failed = FailedIds(drafted, comps),
                                      !.g_drafts = cands,
                                      !.g_ret = "m_gate_ret"]
                /\ pc' = IF cands = <<>> THEN "done" ELSE "gate_send"
    /\ UNCHANGED <<fileVars, tgVars, histVars, flow, runs>>
    /\ UNCHANGED pureVars

\* lines 129-140: post if approved, else stop
MainGateRet ==
    /\ flow = "main" /\ pc = "m_gate_ret"
    /\ IF main_approved(loc.approval)
       THEN /\ \E env \in WfEnvs : DoPost(loc.approval.text, loc.approval.tweet_id, env)
            /\ pc' = "m_posted"
       ELSE /\ pc' = "done"
            /\ UNCHANGED <<pt_count, loc>>
    /\ UNCHANGED <<fileVars, tgVars, approvals, flow, runs>>
    /\ UNCHANGED pureVars

\* lines 147-158: record the tweet id
MainSave ==
    /\ flow = "main" /\ pc = "m_posted"
    /\ state_json' =
        IF main_missing(loc.approval.text, loc.approval.tweet_id)
        THEN state_json
        ELSE save_state(loc.approval.tweet_id)
    /\ pc' = "done"
    /\ UNCHANGED <<replied_file, pending_file, offset_file, tgVars, histVars, flow, loc, runs>>
    /\ UNCHANGED pureVars

(***************************************************************************)
(* main.py: main with MANUAL_TWEET_ID set                                  *)
(***************************************************************************)
\* lines 50-62: fetch the tweet, draft, ask; an exception of write_reply
\* is not caught and ends the process
ManualStart ==
    /\ program = "manual"
    /\ flow = "idle"
    /\ runs < MaxRuns
    /\ \E id \in Ids, c \in WfCompletions :
        LET r == write_reply(Word(2), c)
        IN  /\ loc' = [LocInit EXCEPT !.start = Snapshot,
                          !.r_id = id,
                          !.g_drafts = <<[tweet_id |-> id, author |-> "manual", text |-> r.text]>>,
                          !.g_ret = "x_gate_ret"]
            /\ flow' = IF r.raised THEN "idle" ELSE "manual"
            /\ pc' = IF r.raised THEN "idle" ELSE "gate_send"
    /\ runs' = runs + 1
    /\ UNCHANGED <<fileVars, tgVars, histVars>>
    /\ UNCHANGED pureVars

\* lines 65-70
ManualGateRet ==
    /\ flow = "manual" /\ pc = "x_gate_ret"
    /\ IF loc.approval.action = "approve"
       THEN \E env \in WfEnvs : DoPost(loc.approval.text, loc.r_id, env)
       ELSE UNCHANGED <<pt_count, loc>>
    /\ pc' = "done"
    /\ UNCHANGED <<fileVars, tgVars, approvals, flow, runs>>
    /\ UNCHANGED pureVars

(***************************************************************************)
(* telegram_processor.py                                                   *)
(***************************************************************************)
\* faulty variant: the pending list is not consulted
p1_skips_replied_only(tweet_id, replied_ids, pending) == tweet_id \in Range(replied_ids)

\* faulty variant: the replied list is not consulted
p1_skips_pending_only(tweet_id, replied_ids, pending) ==
    \E i \in 1..Len(pending) : pending[i].tweet_id = tweet_id

\* line 96: already replied or pending
p1_skips(tweet_id, replied_ids, pending) ==
    \/ tweet_id \in Range(replied_ids)
    \/ \E i \in 1..Len(pending) : pending[i].tweet_id = tweet_id

\* lines 92-98: the posts that reach write_reply
p1_drafted(posts, replied_ids, pending) ==
    SelectSeq(posts, LAMBDA p : ~p1_skips(p.tweet_id, replied_ids, pending))

\* faulty variant: the draft is saved unless the gate timed out
p1_approved_unless_timeout(approval_result) == approval_result.action # "timeout"

\* line 129: approval_result.get("action") == "approve"
p1_approved(approval_result) == approval_result.action = "approve"

\* where a run goes on when process_approved_drafts returns: main calls
\* process_new_messages (lines 196-198); called on its own, the function
\* returns to its caller
AfterPhase2 == IF program = "phases" THEN "done" ELSE "p1_search"

\* one of the two phase functions, process_approved_drafts or
\* process_new_messages, is called on its own
PhaseStart ==
    /\ program = "phases"
    /\ flow = "idle"
    /\ runs < MaxRuns
    /\ flow' = "processor"
    /\ pc' \in {"p2_post", "p1_search"}
    /\ loc' = [LocInit EXCEPT !.start = Snapshot]
    /\ runs' = runs + 1
    /\ UNCHANGED <<fileVars, tgVars, histVars>>
    /\ UNCHANGED pureVars

\* faulty variant: main without its publish phase
ProcStart_new_only ==
    /\ program = "processor"
    /\ flow = "idle"
    /\ runs < MaxRuns
    /\ flow' = "processor"
    /\ pc' = "p1_search"
    /\ loc' = [LocInit EXCEPT !.start = Snapshot]
    /\ runs' = runs + 1
    /\ UNCHANGED <<fileVars, tgVars, histVars>>
    /\ UNCHANGED pureVars

\* main, lines 189-194: publish first when drafts are pending
ProcStart ==
    /\ program = "processor"
    /\ flow = "idle"
    /\ runs < MaxRuns
    /\ flow' = "processor"
    /\ pc' = IF load_pending # <<>> THEN "p2_post" ELSE "p1_search"
    /\ loc' = [LocInit EXCEPT !.start = Snapshot]
    /\ runs' = runs + 1
    /\ UNCHANGED <<fileVars, tgVars, histVars>>
    /\ UNCHANGED pureVars

\* process_approved_drafts, lines 154-168: post the head of the pending list
P2Post ==
    /\ flow = "processor" /\ pc = "p2_post"
    /\ IF load_pending = <<>>
       THEN /\ pc' = AfterPhase2
            /\ UNCHANGED <<pt_count, loc>>
       ELSE /\ \E env \in WfEnvs :
                LET draft == load_pending[1]
                IN  /\ pt_count' = [pt_count EXCEPT ![CallbackId(draft.tweet_id)] = @ + 1]
                    /\ loc' = [loc EXCEPT
                            !.pending = load_pending,
                            !.draft = draft,
                            !.resp = Called(draft.text, draft.tweet_id,
                                            post_tweet(draft.text, draft.tweet_id, env))]
            /\ pc' = "p2_save_replied"
    /\ UNCHANGED <<fileVars, tgVars, approvals, flow, runs>>
    /\ UNCHANGED pureVars

\* line 171
P2SaveReplied ==
    /\ flow = "processor" /\ pc = "p2_save_replied"
    /\ replied_file' = save_replied(loc.draft.tweet_id)
    /\ pc' = "p2_save_pending"
    /\ UNCHANGED <<state_json, pending_file, offset_file, tgVars, histVars, flow, loc, runs>>
    /\ UNCHANGED pureVars

\* lines 172-176: drop the draft, rewrite the pending list, notify
P2SavePending ==
    /\ flow = "processor" /\ pc = "p2_save_pending"
    /\ pending_file' = save_pending(Remove(loc.pending, loc.draft)).value
    /\ loc' = [loc EXCEPT !.pending = Remove(loc.pending, loc.draft)]
    /\ tg_msgs' = Append(tg_msgs, [gate |-> FALSE, key |-> "None"])
    /\ pc' = AfterPhase2
    /\ UNCHANGED <<state_json, replied_file, offset_file, tg_log, tg_confirmed, tg_acks,
                   histVars, flow, runs>>
    /\ UNCHANGED pureVars

\* process_new_messages, lines 68-81: the search
P1Search ==
    /\ flow = "processor" /\ pc = "p1_search"
    /\ \E posts \in Batches :
        /\ loc' = [loc EXCEPT !.posts = posts]
        /\ pc' = IF posts = <<>> THEN "done" ELSE "p1_draft"
    /\ UNCHANGED <<fileVars, tgVars, histVars, flow, runs>>
    /\ UNCHANGED pureVars

\* lines 84-124: load both lists and draft the candidates
P1Draft ==
    /\ flow = "processor" /\ pc = "p1_draft"
    /\ LET drafted == p1_drafted(loc.posts, load_replied, load_pending)
       IN  \E comps \in [1..Len(drafted) -> WfCompletions] :
            LET cands == Candidates(drafted, comps, 1)
            IN  /\ loc' = [loc EXCEPT !.replied_ids = load_replied,
                                      !.pending = load_pending,
                                      !.drafted = IdsOf(drafted),
                                      !.failed = FailedIds(drafted, comps),
                                      !.g_drafts = cands,
                                      !.g_ret = "p1_gate_ret"]
                /\ pc' = IF cands = <<>> THEN "done" ELSE "gate_send"
    /\ UNCHANGED <<fileVars, tgVars, histVars, flow, runs>>
    /\ UNCHANGED pureVars

\* lines 129-143: an approved draft is appended to the pending list
P1GateRet ==
    /\ flow = "processor" /\ pc = "p1_gate_ret"
    /\ IF p1_approved(loc.approval)
       THEN LET approved_draft == [tweet_id |-> loc.approval.tweet_id,
                                   text |-> loc.approval.text]
            IN  /\ pending_file' = save_pending(Append(loc.pending, approved_draft)).value
                /\ loc' = [loc EXCEPT !.pending = Append(loc.pending, approved_draft)]
       ELSE UNCHANGED <<pending_file, loc>>
    /\ pc' = "done"
    /\ UNCHANGED <<state_json, replied_file, offset_file, tgVars, histVars, flow, runs>>
    /\ UNCHANGED pureVars

(***************************************************************************)
(* tele_router.py                                                          *)
(***************************************************************************)
\* _load_offset
_load_offset == offset_file

\* run_telegram_router_once, lines 73-77
RouterStart ==
    /\ program = "router"
    /\ flow = "idle"
    /\ runs < MaxRuns
    /\ tg_confirmed' = Confirmed(_load_offset)
    /\ loc' = [LocInit EXCEPT !.start = Snapshot,
                              !.r_batch = get_updates(_load_offset),
                              !.r_i = 1,
                              !.r_new = _load_offset]
    /\ flow' = "router"
    /\ pc' = IF get_updates(_load_offset) = <<>> THEN "done" ELSE "r_loop"
    /\ runs' = runs + 1
    /\ UNCHANGED <<fileVars, tg_log, tg_msgs, tg_acks, histVars>>
    /\ UNCHANGED pureVars

\* lines 78-84 and _process_text up to its send_drafts_async call; an
\* exception of write_reply is not caught and ends the process
RouterLoop ==
    /\ flow = "router" /\ pc = "r_loop"
    /\ loc.r_i <= Len(loc.r_batch)
    /\ LET upd == loc.r_batch[loc.r_i]
           new_offset == Max(loc.r_new, upd.update_id + 1)
       IN  IF upd.kind # "message" \/ upd.action = "foreign"
           THEN /\ loc' = [loc EXCEPT !.r_new = new_offset, !.r_i = @ + 1]
                /\ UNCHANGED <<flow, pc>>
           ELSE \E c \in WfCompletions :
                LET r == write_reply(Word(2), c)
                    tweet_id == IF upd.action = "url" THEN upd.id ELSE NONE
                IN  IF r.raised
                    THEN flow' = "idle" /\ pc' = "idle" /\ loc' = LocInit
                    ELSE /\ loc' = [loc EXCEPT
                                !.r_new = new_offset,
                                !.r_id = tweet_id,
                                !.approval = NoApproval,
                                !.g_drafts = <<[tweet_id |-> tweet_id,
                                                author |-> IF upd.action = "url"
                                                           THEN "manual" ELSE "self",
                                                text |-> r.text]>>,
                                !.g_ret = "r_gate_ret"]
                         /\ pc' = "gate_send"
                         /\ UNCHANGED flow
    /\ UNCHANGED <<fileVars, tgVars, histVars, runs>>
    /\ UNCHANGED pureVars

\* _process_text, lines 47-54 and 61-68: post if approved, report in the chat
RouterGateRet ==
    /\ flow = "router" /\ pc = "r_gate_ret"
    /\ \E env \in WfEnvs :
        IF loc.approval.action = "approve"
        THEN /\ pt_count' = [pt_count EXCEPT ![CallbackId(loc.r_id)] = @ + 1]
             /\ loc' = [loc EXCEPT
                    !.resp = Called(loc.approval.text, loc.r_id,
                                    post_tweet(loc.approval.text, loc.r_id, env)),
                    !.r_i = @ + 1]
        ELSE /\ loc' = [loc EXCEPT !.r_i = @ + 1]
             /\ UNCHANGED pt_count
    /\ tg_msgs' = Append(tg_msgs, [gate |-> FALSE, key |-> "None"])
    /\ pc' = "r_loop"
    /\ UNCHANGED <<fileVars, tg_log, tg_confirmed, tg_acks, approvals, flow, runs>>
    /\ UNCHANGED pureVars

\* lines 85-86: _save_offset
RouterSave ==
    /\ flow = "router" /\ pc = "r_loop"
    /\ loc.r_i > Len(loc.r_batch)
    /\ offset_file' = loc.r_new
    /\ pc' = "done"
    /\ UNCHANGED <<state_json, replied_file, pending_file, tgVars, histVars, flow, loc, runs>>
    /\ UNCHANGED pureVars

(***************************************************************************)
(* The end of a run                                                        *)
(***************************************************************************)
\* the program returns
Finish ==
    /\ pc = "done"
    /\ flow' = "idle" /\ pc' = "idle" /\ loc' = LocInit
    /\ UNCHANGED <<fileVars, tgVars, histVars, runs>>
    /\ UNCHANGED pureVars

\* the process is killed: the files stay as last written
Crash ==
    /\ flow # "idle" /\ pc # "done"
    /\ flow' = "idle" /\ pc' = "idle" /\ loc' = LocInit
    /\ UNCHANGED <<fileVars, tgVars, histVars, runs>>
    /\ UNCHANGED pureVars

InitFlow ==
    /\ ov = OvInit
    /\ state_json = <<>> /\ replied_file = <<>> /\ pending_file = <<>>
    /\ offset_file = 0
    /\ tg_log = <<>> /\ tg_confirmed = 0 /\ tg_msgs = <<>> /\ tg_acks = <<>>
    /\ flow = "idle" /\ pc = "idle" /\ loc = LocInit /\ runs = 0
    /\ pt_count = [i \in IdKeys |-> 0]
    /\ approvals = [i \in IdKeys |-> 0]

Init ==
    /\ InitFlow
    /\ program \in Programs
    /\ wr_in = NoCall /\ wr_out = NoCall /\ pt_in = NoCall /\ pt_out = NoCall
    /\ cl_in = NoCall /\ cl_out = NoCall
    /\ st_in = NoCall /\ st_out = NoCall

Next ==
    \/ MainStart \/ MainDraft \/ MainGateRet \/ MainSave
    \/ ManualStart \/ ManualGateRet
    \/ ProcStart \/ P2Post \/ P2SaveReplied \/ P2SavePending
    \/ P1Search \/ P1Draft \/ P1GateRet
    \/ RouterStart \/ RouterLoop \/ RouterGateRet \/ RouterSave
    \/ GateSend \/ GatePoll \/ GateTimeout
    \/ Click \/ UserText
    \/ Finish \/ Crash


Spec == Init /\ [][Next]_vars

(***************************************************************************)
(* The two phases of telegram_processor.py called one at a time            *)
(***************************************************************************)
\* button clicks in one behaviour of the phase specifications
MaxPhaseClicks == 2

InitPhases ==
    /\ InitFlow
    /\ program = "phases"
    /\ wr_in = NoCall /\ wr_out = NoCall /\ pt_in = NoCall /\ pt_out = NoCall
    /\ cl_in = NoCall /\ cl_out = NoCall
    /\ st_in = NoCall /\ st_out = NoCall

\* the calls are serialized: the next one starts when the last one has
\* returned or was killed
NextPhases ==
    \/ PhaseStart \/ P2Post \/ P2SaveReplied \/ P2SavePending
    \/ P1Search \/ P1Draft \/ P1GateRet
    \/ GateSend \/ GatePoll \/ GateTimeout
    \/ ClickUpTo(MaxPhaseClicks)
    \/ Finish \/ Crash

SpecPhases == InitPhases /\ [][NextPhases]_vars

InitSerial ==
    /\ InitFlow
    /\ program \in {"processor", "phases"}
    /\ wr_in = NoCall /\ wr_out = NoCall /\ pt_in = NoCall /\ pt_out = NoCall
    /\ cl_in = NoCall /\ cl_out = NoCall
    /\ st_in = NoCall /\ st_out = NoCall

\* serialized runs, each of which runs to its end
NextSerial ==
    \/ ProcStart \/ PhaseStart \/ P2Post \/ P2SaveReplied \/ P2SavePending
    \/ P1Search \/ P1Draft \/ P1GateRet
    \/ GateSend \/ GatePoll \/ GateTimeout
    \/ ClickUpTo(MaxPhaseClicks)
    \/ Finish

SpecSerial == InitSerial /\ [][NextSerial]_vars

(***************************************************************************)
(* x_search.py, scraper.py and the discovery chains                        *)
(*                                                                         *)
(* The environment of one search call: creds (are the four OAuth1          *)
(* variables set), script (the answers of the search endpoint, request by  *)
(* request; the last answer repeats for ever) and tweets (the "data" of a  *)
(* 200 answer).                                                            *)
(***************************************************************************)
\* for i in range(3)
SEARCH_ATTEMPTS == 3

\* a tweet as the provider or the page delivers it; big: the author has at
\* least 10000 followers and the tweet passes the engagement and time
\* filters of search_kol_recent
RawTweet(id, handle, text, big, verified) ==
    [tweet_id |-> id, handle |-> handle, text |-> text, big |-> big, verified |-> verified]

\* the standardized post built from a raw tweet
PostOf(t) == [tweet_id |-> t.tweet_id, handle |-> t.handle, text |-> Strip(t.text)]

\* x_search._auth raises ValueError when a credential is missing
_auth(env) == [raised |-> ~env.creds]

\* faulty variant: the loop goes on until the answer is not a 429
Attempts_no_bound(script) ==
    LET stops == {i \in 1..Len(script) : script[i] # Http(429)}
    IN  IF stops = {} THEN Len(script) + 1 ELSE SetMin(stops)

\* lines 48-53: the number of requests the retry loop sends
Attempts(script) ==
    LET stops == {i \in 1..SEARCH_ATTEMPTS : Answer(script, i) # Http(429)}
    IN  IF stops = {} THEN SEARCH_ATTEMPTS ELSE SetMin(stops)

\* line 87: tid and handle and txt
ValidTweet(t) == t.tweet_id # "" /\ t.handle # "" /\ Strip(t.text) # <<>>

\* lines 210-226: the same, and the follower, engagement and time filters
ValidKolTweet(t) == ValidTweet(t) /\ t.big

\* faulty variant: the last record of each id is kept
FirstOccurrences_last(posts) ==
    LET keep == {i \in 1..Len(posts) :
                    /\ posts[i].tweet_id # ""
                    /\ \A j \in (i + 1)..Len(posts) : posts[j].tweet_id # posts[i].tweet_id}
    IN  [k \in 1..Cardinality(keep) |-> posts[Nth(keep, k)]]

\* x_search.py lines 111-118: the posts with a non-empty id that was not
\* seen before, in order
FirstOccurrences(posts) ==
    LET keep == {i \in 1..Len(posts) :
                    /\ posts[i].tweet_id # ""
                    /\ \A j \in 1..(i - 1) : posts[j].tweet_id # posts[i].tweet_id}
    IN  [k \in 1..Cardinality(keep) |-> posts[Nth(keep, k)]]

\* a search call: the result, whether it raised, the requests it sent; kol
\* tells which of the two filters applies
SearchCall(env, kol, limit) ==
    IF _auth(env).raised
    THEN [raised |-> TRUE, posts |-> <<>>, requests |-> 0]
    ELSE LET n == Attempts(env.script)
             r == Answer(env.script, n)
         IN  IF r.kind = "exception"
             THEN [raised |-> TRUE, posts |-> <<>>, requests |-> n]
             ELSE IF r.status # 200
             THEN [raised |-> FALSE, posts |-> <<>>, requests |-> n]
             ELSE LET kept == SelectSeq(env.tweets,
                                      LAMBDA t : IF kol THEN ValidKolTweet(t)
                                                 ELSE ValidTweet(t))
                  IN  [raised |-> FALSE,
                       posts |-> [k \in 1..Min(limit, Len(kept)) |-> PostOf(kept[k])],
                       requests |-> n]

\* search_recent_for_topic(topic, limit)
search_recent_for_topic(env, limit) == SearchCall(env, FALSE, limit)

RECURSIVE MergeTopics(_, _)
\* search_recent_topics, lines 104-109: the results of the topics one after
\* the other; a topic whose search raised adds nothing
MergeTopics(envs, limit) ==
    IF envs = <<>> THEN <<>>
    ELSE LET r == search_recent_for_topic(envs[1], limit)
         IN  (IF r.raised THEN <<>> ELSE r.posts) \o MergeTopics(Tail(envs), limit)

\* search_recent_topics(topics, limit_per_topic)
search_recent_topics(envs, limit_per_topic) ==
    [raised |-> FALSE, posts |-> FirstOccurrences(MergeTopics(envs, limit_per_topic))]

\* search_kol_recent(topics, limit): one search, nothing caught
search_kol_recent(env, limit) ==
    LET r == SearchCall(env, TRUE, Max(1, limit))
    IN  [raised |-> r.raised, posts |-> r.posts, requests |-> r.requests]

\* scraper._filter_posts: a tweet id and a verified or allow-listed author
_filter_posts(posts) == SelectSeq(posts, LAMBDA t : t.tweet_id # "" /\ t.verified)

\* scraper._deduplicate_posts
_deduplicate_posts(posts) == FirstOccurrences(posts)

\* scraper.search_posts(topics): scr.kind "raise" when the browser cannot be
\* started, else scr.cards is all_posts after the loop over the topics
search_posts(scr) ==
    IF scr.kind = "raise"
    THEN [raised |-> TRUE, posts |-> <<>>]
    ELSE LET kept == _deduplicate_posts(_filter_posts(scr.cards))
         IN  [raised |-> FALSE, posts |-> [k \in 1..Len(kept) |-> PostOf(kept[k])]]

\* faulty variant: the scraper's posts are added to those of the API
main_collect_merge(envs, scr) ==
    LET api == search_recent_topics(envs, 2)
        web == search_posts(scr)
    IN  [raised |-> FALSE, tried |-> <<"api", "scraper">>, posts |-> api.posts \o web.posts]

\* main.py lines 72-85, telegram_processor.py lines 68-81: the API search,
\* else the scraper; an exception ends the run without posts
main_collect(envs, scr) ==
    LET api == search_recent_topics(envs, 2)
        web == search_posts(scr)
    IN  IF api.posts # <<>>
        THEN [raised |-> FALSE, tried |-> <<"api">>, posts |-> api.posts]
        ELSE [raised |-> FALSE, tried |-> <<"api", "scraper">>, posts |-> web.posts]

\* dev_once.py lines 17-21: KOL search, else topic search, else scraper;
\* nothing is caught
dev_once_collect(kol_env, envs, scr) ==
    LET kol == search_kol_recent(kol_env, 1)
        api == search_recent_topics(envs, 3)
        web == search_posts(scr)
    IN  IF kol.raised
        THEN [raised |-> TRUE, tried |-> <<"kol">>, posts |-> <<>>]
        ELSE IF kol.posts # <<>>
        THEN [raised |-> FALSE, tried |-> <<"kol">>, posts |-> kol.posts]
        ELSE IF api.posts # <<>>
        THEN [raised |-> FALSE, tried |-> <<"kol", "api">>, posts |-> api.posts]
        ELSE [raised |-> web.raised, tried |-> <<"kol", "api", "scraper">>, posts |-> web.posts]

(***************************************************************************)
(* Inputs of the collector specification                                   *)
(***************************************************************************)
Good(id, handle) == RawTweet(id, handle, Word(2), TRUE, TRUE)

RawLists ==
    {<<>>,
     <<Good("t1", "h")>>,
     <<Good("t1", "h"), Good("t2", "h")>>,
     <<Good("t1", "h"), Good("t1", "g"), Good("t2", "h")>>,
     <<Good("", "h"), Good("t2", "g")>>,
     <<RawTweet("t2", "g", Word(2), FALSE, FALSE), Good("t1", "")>>}

\* the endpoint answers at once, after one or two 429, or never
SearchScripts ==
    {<<Http(200)>>, <<Http(429), Http(200)>>, <<Http(429), Http(429), Http(200)>>,
     <<Http(429), Http(429), Http(429), Http(200)>>,
     <<Http(500)>>, <<NetworkError>>, <<Http(429), NetworkError>>}

SearchEnvs ==
    {[creds |-> FALSE, script |-> <<Http(200)>>, tweets |-> <<Good("t1", "h")>>]}
    \cup {[creds |-> TRUE, script |-> <<Http(200)>>, tweets |-> l] : l \in RawLists}
    \cup {[creds |-> TRUE, script |-> sc, tweets |-> <<Good("t1", "h"), Good("t2", "h")>>] :
            sc \in SearchScripts \ {<<Http(200)>>}}

ScraperOutcomes ==
    {[kind |-> "raise", cards |-> <<>>]} \cup {[kind |-> "ok", cards |-> l] : l \in RawLists}

InitCollector ==
    /\ cl_in \in [topics : [1..2 -> SearchEnvs], kol : SearchEnvs, scraper : ScraperOutcomes]
    /\ cl_out = NoCall
    /\ wr_in = NoCall /\ wr_out = NoCall /\ pt_in = NoCall /\ pt_out = NoCall
    /\ st_in = NoCall /\ st_out = NoCall
    /\ InitFlow
    /\ program = "main"

\* each entry point called once in the same environment
CallCollect ==
    /\ cl_in # NoCall
    /\ cl_out = NoCall
    /\ cl_out' = [called |-> TRUE,
                  topic |-> search_recent_for_topic(cl_in.topics[1], 2),
                  topics |-> search_recent_topics(cl_in.topics, 2),
                  kol |-> search_kol_recent(cl_in.kol, 1),
                  scraper |-> search_posts(cl_in.scraper),
                  main |-> main_collect(cl_in.topics, cl_in.scraper),
                  dev_once |-> dev_once_collect(cl_in.kol, cl_in.topics, cl_in.scraper)]
    /\ UNCHANGED <<cl_in, writerVars, posterVars, storeVars, flowVars, ov>>

NextCollector == CallCollect

SpecCollector == InitCollector /\ [][NextCollector]_vars

(***************************************************************************)
(* dev_once.py                                                             *)
(***************************************************************************)
\* line 12: os.getenv("DRY_RUN", "true").lower() == "true"
dry_run_flag(value) == value \in {"unset", "true", "True"}

\* faulty variant: the flag is not consulted
dev_once_publishes_always(dry_run) == TRUE

\* line 36: if not dry_run
dev_once_publishes(dry_run) == ~dry_run

\* str.replace("\n", " ")
ReplaceNewlines(s) == [i \in 1..Len(s) |-> IF s[i] = "\n" THEN " " ELSE s[i]]

RECURSIVE dev_once_loop(_, _, _, _, _, _, _)
\* lines 26-44: the ids write_reply was called for ("generated"), the drafts
\* it returned and the ids post_tweet was called for ("posted"); comps[i]
\* is the generation service's answer for the i-th post
dev_once_loop(posts, i, count, dry_run, max_posts, comps, env) ==
    IF i > Len(posts) THEN [generated |-> <<>>, drafts |-> <<>>, posted |-> <<>>]
    ELSE LET tid == posts[i].tweet_id
             txt == ReplaceNewlines(Strip(posts[i].text))
             reply == write_reply(txt, comps[i])
             publish == ~reply.raised /\ dev_once_publishes(dry_run)
             resp == post_tweet(reply.text, tid, env)
             counted == ~reply.raised /\ ~(publish /\ resp.raised)
             rest == IF tid = "" \/ txt = <<>> THEN dev_once_loop(posts, i + 1, count,
                                                        dry_run, max_posts, comps, env)
                     ELSE IF counted /\ count + 1 >= max_posts
                     THEN [generated |-> <<>>, drafts |-> <<>>, posted |-> <<>>]
                     ELSE dev_once_loop(posts, i + 1, IF counted THEN count + 1 ELSE count,
                                        dry_run, max_posts, comps, env)
         IN  IF tid = "" \/ txt = <<>> THEN rest
             ELSE [generated |-> <<tid>> \o rest.generated,
                   drafts |-> (IF reply.raised THEN <<>> ELSE <<reply.text>>) \o rest.drafts,
                   posted |-> (IF publish THEN <<tid>> ELSE <<>>) \o rest.posted]

\* dev_once() with the given flag, in the environment e
dev_once(dry_run, e) ==
    LET found == dev_once_collect(e.kol, e.topics, e.scraper)
        run == dev_once_loop(found.posts, 1, 0, dry_run, e.max_posts, e.comps, e.env)
    IN  [raised |-> found.raised,
         tried |-> found.tried,
         discovered |-> found.posts,
         generated |-> run.generated,
         drafts |-> run.drafts,
         posted |-> run.posted]

(***************************************************************************)
(* Inputs of the dev_once specification                                    *)
(***************************************************************************)
DevSearchEnvs ==
    {[creds |-> TRUE, script |-> <<Http(200)>>, tweets |-> <<>>],
     [creds |-> TRUE, script |-> <<Http(200)>>, tweets |-> <<Good("t1", "h"), Good("t2", "h")>>],
     [creds |-> TRUE, script |-> <<Http(500)>>, tweets |-> <<Good("t1", "h")>>]}

\* the second scraper result holds a card without text
DevScraperOutcomes ==
    {[kind |-> "ok", cards |-> <<>>],
     [kind |-> "ok", cards |-> <<RawTweet("t1", "h", Pad(1), TRUE, TRUE), Good("t2", "h")>>],
     [kind |-> "ok", cards |-> <<Good("t2", "h"), Good("t1", "h")>>]}

DevInputs ==
    [DRY_RUN : {"unset", "true", "True", "false", "1"},
     max_posts : {1, 2},
     kol : DevSearchEnvs,
     topics : [1..1 -> DevSearchEnvs],
     scraper : DevScraperOutcomes,
     comps : [1..2 -> WfCompletions],
     env : WfEnvs]

InitDevOnce ==
    /\ cl_in \in DevInputs
    /\ cl_out = NoCall
    /\ wr_in = NoCall /\ wr_out = NoCall /\ pt_in = NoCall /\ pt_out = NoCall
    /\ st_in = NoCall /\ st_out = NoCall
    /\ InitFlow
    /\ program = "main"

\* one run of dev_once; "flipped" is the run the same environment gives
\* with the flag the other way round
CallDevOnce ==
    /\ cl_in # NoCall
    /\ cl_out = NoCall
    /\ cl_out' = [called |-> TRUE,
                  dry_run |-> dry_run_flag(cl_in.DRY_RUN),
                  run |-> dev_once(dry_run_flag(cl_in.DRY_RUN), cl_in),
                  flipped |-> dev_once(~dry_run_flag(cl_in.DRY_RUN), cl_in)]
    /\ UNCHANGED <<cl_in, writerVars, posterVars, storeVars, flowVars, ov>>

NextDevOnce == CallDevOnce

SpecDevOnce == InitDevOnce /\ [][NextDevOnce]_vars

(***************************************************************************)
(* process_approved_drafts, invoked several times on the same files        *)
(***************************************************************************)
\* faulty variant: an invocation waits until no other one is under way
OvMayEnter_locked(p) == \A q \in Procs \ {p} : ov[q].pc \in {"start", "done"}

\* line 154: load_pending is called without taking a lock
OvMayEnter(p) == TRUE

\* faulty variant: the loop runs over the whole list
OvBatch_all(pending) == pending

\* line 161: pending[:1]
OvBatch(pending) == Slice(pending, 1)

\* lines 154-161: load the list, start the loop over its first entry
OvLoad(p) ==
    /\ ov[p].pc = "start"
    /\ OvMayEnter(p)
    /\ ov' = [ov EXCEPT ![p].loaded = load_pending,
                        ![p].pending = load_pending,
                        ![p].batch = OvBatch(load_pending),
                        ![p].draft = IF load_pending = <<>> THEN @
                                     ELSE OvBatch(load_pending)[1],
                        ![p].pc = IF load_pending = <<>> THEN "done" ELSE "post"]
    /\ UNCHANGED <<fileVars, tgVars, histVars, program, flow, pc, loc, runs>>

\* line 167: post_tweet
OvPost(p) ==
    /\ ov[p].pc = "post"
    /\ pt_count' = [pt_count EXCEPT ![CallbackId(ov[p].draft.tweet_id)] = @ + 1]
    /\ ov' = [ov EXCEPT ![p].pc = "replied_load", ![p].calls = @ + 1]
    /\ UNCHANGED <<fileVars, tgVars, approvals, program, flow, pc, loc, runs>>

\* save_replied, lines 51-52: load the list, test the id
OvRepliedLoad(p) ==
    /\ ov[p].pc = "replied_load"
    /\ ov' = [ov EXCEPT ![p].replied = load_replied,
                        ![p].pc = IF ov[p].draft.tweet_id \in Range(load_replied)
                                  THEN "save_pending" ELSE "replied_write"]
    /\ UNCHANGED <<fileVars, tgVars, histVars, program, flow, pc, loc, runs>>

\* save_replied, lines 53-55: append and write
OvRepliedWrite(p) ==
    /\ ov[p].pc = "replied_write"
    /\ replied_file' = Append(ov[p].replied, ov[p].draft.tweet_id)
    /\ ov' = [ov EXCEPT ![p].pc = "save_pending"]
    /\ UNCHANGED <<state_json, pending_file, offset_file, tgVars, histVars,
                   program, flow, pc, loc, runs>>

\* lines 172-176: drop the draft, rewrite the pending list, notify; then
\* the next turn of the loop, if any
OvSavePending(p) ==
    /\ ov[p].pc = "save_pending"
    /\ pending_file' = save_pending(Remove(ov[p].pending, ov[p].draft)).value
    /\ tg_msgs' = Append(tg_msgs, [gate |-> FALSE, key |-> "None"])
    /\ ov' = [ov EXCEPT ![p].pending = Remove(ov[p].pending, ov[p].draft),
                        ![p].batch = Tail(@),
                        ![p].draft = IF Tail(ov[p].batch) = <<>> THEN @
                                     ELSE Tail(ov[p].batch)[1],
                        ![p].pc = IF Tail(ov[p].batch) = <<>> THEN "done" ELSE "post"]
    /\ UNCHANGED <<state_json, replied_file, offset_file, tg_log, tg_confirmed, tg_acks,
                   histVars, program, flow, pc, loc, runs>>

\* the next step of invocation p
OvStep(p) ==
    OvLoad(p) \/ OvPost(p) \/ OvRepliedLoad(p) \/ OvRepliedWrite(p) \/ OvSavePending(p)

\* a draft as process_new_messages stores it
StoredDraft(id) == [tweet_id |-> id, text |-> Word(2)]

\* the pending list earlier invocations of process_new_messages left
OvPendingLists ==
    {<<StoredDraft("t1")>>, <<StoredDraft("t1"), StoredDraft("t2")>>}

InitOverlap ==
    /\ ov = OvInit
    /\ pending_file \in OvPendingLists
    /\ state_json = <<>> /\ replied_file = <<>>
    /\ offset_file = 0
    /\ tg_log = <<>> /\ tg_confirmed = 0 /\ tg_msgs = <<>> /\ tg_acks = <<>>
    /\ flow = "idle" /\ pc = "idle" /\ loc = LocInit /\ runs = 0
    /\ pt_count = [i \in IdKeys |-> 0]
    /\ approvals = [i \in IdKeys |-> 0]
    /\ program = "processor"
    /\ wr_in = NoCall /\ wr_out = NoCall /\ pt_in = NoCall /\ pt_out = NoCall
    /\ cl_in = NoCall /\ cl_out = NoCall
    /\ st_in = NoCall /\ st_out = NoCall

NextOverlap ==
    \E p \in Procs :
        /\ OvStep(p)
        /\ UNCHANGED <<writerVars, posterVars, collectorVars, storeVars>>

SpecOverlap == InitOverlap /\ [][NextOverlap]_vars

(***************************************************************************)
(* The state store, one file at a time                                     *)
(***************************************************************************)
\* longest list a state file of the store specification holds
MaxStored == 2

\* state.json and replied_tweets.json hold tweet ids, pending_approvals.json
\* holds drafts
StoreEntries(which) == IF which = "pending" THEN {StoredDraft(i) : i \in Ids} ELSE Ids

StoreLists(which) == {<<>>} \cup SeqsUpTo(StoreEntries(which), MaxStored)

\* the file is missing, was cut short by an interrupted write, or is whole
StoreFiles(which) ==
    {Missing}
    \cup {Malformed(l) : l \in StoreLists(which)}
    \cup {JsonFile(l) : l \in StoreLists(which)}

StoreInputs ==
    UNION {[which : {w}, file : StoreFiles(w), entry : StoreEntries(w)] :
            w \in {"state", "replied", "pending"}}

InitStore ==
    /\ st_in \in StoreInputs
    /\ st_out = NoCall
    /\ wr_in = NoCall /\ wr_out = NoCall /\ pt_in = NoCall /\ pt_out = NoCall
    /\ cl_in = NoCall /\ cl_out = NoCall
    /\ InitFlow
    /\ program = "main"

\* load_state (main.py line 88), load_replied, load_pending
\* (telegram_processor.py lines 84-85 and 154)
StoreLoad ==
    /\ st_in # NoCall
    /\ st_out = NoCall
    /\ st_out' = [called |-> TRUE, step |-> "loaded", load |-> load_list(st_in.file),
                  file |-> st_in.file]
    /\ UNCHANGED <<st_in, writerVars, posterVars, collectorVars, flowVars, ov>>

\* the save that follows in the same run: save_state (main.py line 157),
\* save_replied (telegram_processor.py line 171), pending.append and
\* save_pending (lines 139-140)
StoreSave ==
    /\ st_out # NoCall
    /\ st_out.step = "loaded"
    /\ ~st_out.load.raised
    /\ st_out' = [st_out EXCEPT
            !.step = "saved",
            !.file = IF st_in.which = "state"
                     THEN save_state_at(st_in.file, st_in.entry).file
                     ELSE IF st_in.which = "replied"
                     THEN save_replied_at(st_in.file, st_in.entry).file
                     ELSE save_pending(Append(st_out.load.value, st_in.entry))]
    /\ UNCHANGED <<st_in, writerVars, posterVars, collectorVars, flowVars, ov>>

NextStore == StoreLoad \/ StoreSave

SpecStore == InitStore /\ [][NextStore]_vars

InitWriter ==
    /\ wr_in \in [post_text : PostTexts, completion : Completions]
    /\ wr_out = NoCall
    /\ pt_in = NoCall
    /\ pt_out = NoCall
    /\ cl_in = NoCall
    /\ cl_out = NoCall
    /\ st_in = NoCall /\ st_out = NoCall
    /\ InitFlow
    /\ program = "main"

CallWriteReply ==
    /\ wr_in # NoCall
    /\ wr_out = NoCall
    /\ wr_out' = [called |-> TRUE, r |-> write_reply(wr_in.post_text, wr_in.completion)]
    /\ UNCHANGED <<wr_in, posterVars, collectorVars, storeVars, flowVars, ov>>

NextWriter == CallWriteReply

SpecWriter == InitWriter /\ [][NextWriter]_vars

InitPoster ==
    /\ pt_in \in [text : {Word(2)}, in_reply_to : {"t1", "None"},
                  env : [creds : BOOLEAN, token : TokenOutcomes, script : Scripts]]
    /\ pt_out = NoCall
    /\ wr_in = NoCall
    /\ wr_out = NoCall
    /\ cl_in = NoCall
    /\ cl_out = NoCall
    /\ st_in = NoCall /\ st_out = NoCall
    /\ InitFlow
    /\ program = "main"

CallPostTweet ==
    /\ pt_in # NoCall
    /\ pt_out = NoCall
    /\ pt_out' = [called |-> TRUE, r |-> post_tweet(pt_in.text, pt_in.in_reply_to, pt_in.env)]
    /\ UNCHANGED <<pt_in, writerVars, collectorVars, storeVars, flowVars, ov>>

NextPoster == CallPostTweet

SpecPoster == InitPoster /\ [][NextPoster]_vars

\* the workflow with a process that keeps running while it is in
\* send_drafts: the event loop of asyncio.run takes its next step
SpecGate ==
    Init /\ [][Next]_vars
    /\ WF_vars(GateSend) /\ WF_vars(GatePoll) /\ WF_vars(GateTimeout)

(***************************************************************************)
(* Properties                                                              *)
(***************************************************************************)
\* the replied list of the running program: state.json for main.py,
\* replied_tweets.json for telegram_processor.py
RepliedList == IF flow = "main" THEN state_json ELSE replied_file

\* the gate has returned to its caller and the caller still holds the result
GateReturned == loc.approval.action \in {"approve", "skip", "timeout"}

\* C1 (dedup idempotence): a post whose id is in the replied list the run
\* loaded is never passed to write_reply and is in no candidate list handed
\* to the approval gate, in main.main and in process_new_messages.
C1_DedupIdempotence ==
    \A id \in Range(loc.replied_ids) :
        /\ id \notin Range(loc.drafted)
        /\ \A i \in 1..Len(loc.g_drafts) : loc.g_drafts[i].tweet_id # id

\* the collection returned a post that is already replied, next to a new
\* one that was drafted and goes to the gate
C1_Witness ==
    /\ pc = "gate_send"
    /\ \E i \in 1..Len(loc.posts) : loc.posts[i].tweet_id \in Range(loc.replied_ids)

\* C2 (at-most-one posting), as claimed: post_tweet is invoked at most once
\* per approval of a tweet id, whatever crashes and re-runs happen.
C2_AtMostOnePosting == \A k \in IdKeys : pt_count[k] <= approvals[k]

PosterReady == /\ pt_out # NoCall
               /\ pt_in.env.creds
               /\ pt_in.env.token = "ok"

AllRateLimited == \A i \in 1..Len(pt_in.env.script) : pt_in.env.script[i] = Http(429)

Transient(a) == a.kind = "http" /\ a.status \in TransientStatuses

TransientThenCreated ==
    \E k \in 1..2 :
        /\ Len(pt_in.env.script) = k + 1
        /\ \A i \in 1..k : Transient(pt_in.env.script[i])
        /\ pt_in.env.script[k + 1] = Http(201)

C5_TimeoutTerminal ==
    /\ loc.approval.action \in {"approve", "skip"} =>
            \E i \in 1..Len(tg_log) :
                tg_log[i].kind = "callback" /\ tg_log[i].message_id = loc.g_msg
    /\ loc.approval.action = "timeout" =>
            /\ loc.g_elapsed >= WINDOW
            /\ Files = loc.snap.files
            /\ pt_count = loc.snap.calls

\* a run ended on a timeout although a click on an older message was waiting
C5_Witness ==
    /\ pc = "done" /\ loc.approval.action = "timeout"
    /\ \E i \in 1..Len(tg_log) : tg_log[i].kind = "callback"

\* the run started from empty lists, the collection returned one post, its
\* draft is not empty, the gate answered approve, no post_tweet call failed
ApproveScenario ==
    /\ pc = "done"
    /\ loc.start.files = NoSnap.files
    /\ Len(loc.posts) = 1 /\ Len(loc.g_drafts) = 1
    /\ loc.g_drafts[1].text # <<>>
    /\ loc.approval.action = "approve"
    /\ loc.resp.called => loc.resp.success

\* C6 (approve scenario), as claimed: at the end of that run the replied
\* list holds the post's id and the pending list is empty.
C6_ApproveScenario ==
    (flow \in {"main", "processor"} /\ ApproveScenario) =>
        /\ loc.posts[1].tweet_id \in Range(RepliedList)
        /\ pending_file = <<>>

\* C6, amended: main.main ends with the id in state.json; the two-phase
\* program ends that run with the approved draft in the pending list, the
\* replied list empty and nothing published, and the publish phase of a
\* later run records the id and drops the draft.
C6_ApproveScenarioByFlow ==
    /\ (flow = "main" /\ ApproveScenario) =>
            /\ loc.resp.called
            /\ state_json = <<loc.posts[1].tweet_id>>
            /\ pending_file = <<>>
    /\ (flow = "processor" /\ ApproveScenario) =>
            /\ ~loc.resp.called
            /\ replied_file = <<>>
            /\ pending_file = <<[tweet_id |-> loc.posts[1].tweet_id,
                                 text |-> loc.g_drafts[1].text]>>
    /\ (flow = "processor" /\ pc = "p1_search" /\ loc.resp.called) =>
            /\ loc.draft.tweet_id \in Range(replied_file)
            /\ pending_file = Tail(loc.start.files.pending)

C6_Witness == flow = "processor" /\ ApproveScenario

\* C7 (skip scenario): after a skip no post_tweet call was made and the
\* lists are as they were when the gate was called; and post_tweet is only
\* ever invoked for a tweet id the gate approved.
C7_SkipNoPost ==
    /\ loc.approval.action = "skip" =>
            /\ Files = loc.snap.files
            /\ pt_count = loc.snap.calls
    /\ \A k \in IdKeys : pt_count[k] > 0 => approvals[k] > 0

C7_Witness == flow = "processor" /\ pc = "done" /\ loc.approval.action = "skip"

\* C8 (length invariant): write_reply returns at most MAX_LEN characters.
C8_LengthInvariant ==
    (wr_out # NoCall /\ ~wr_out.r.raised) => Len(wr_out.r.text) <= MAX_LEN

\* the completion was longer than MAX_LEN and was cut
C8_Witness ==
    /\ wr_out # NoCall
    /\ Len(Strip(wr_in.completion.content)) > MAX_LEN
    /\ Len(wr_out.r.text) = MAX_LEN

\* C9 (non-empty draft), as claimed: write_reply never returns the empty
\* string.
C9_NonEmptyDraft ==
    (wr_out # NoCall /\ ~wr_out.r.raised) => wr_out.r.text # <<>>

\* C10 (published and failed both mark replied), as claimed: at the end of
\* a run of main.main or telegram_processor.main in which post_tweet was
\* invoked, the tweet id is in the replied list.
C10_PostedMarksReplied ==
    (flow \in {"main", "processor"} /\ pc = "done" /\ loc.resp.called) =>
        loc.resp.in_reply_to \in Range(RepliedList)

\* C11 (pending removal): the pending list only ever loses the draft that
\* post_tweet was just called for, one occurrence of it and nothing else;
\* and once the publish step of a run is over, that draft is no longer in
\* the pending list.
C11_PendingRemoval ==
    /\ [](flow = "processor" /\ loc.resp.called
            /\ pc \notin {"p2_save_replied", "p2_save_pending"}
          => loc.draft \notin Range(pending_file))
    /\ [][Len(pending_file') < Len(pending_file) =>
            /\ loc.resp.called
            /\ loc.resp.in_reply_to = loc.draft.tweet_id
            /\ loc.draft \in Range(pending_file)
            /\ pending_file' = Remove(pending_file, loc.draft)
            /\ loc.draft \notin Range(pending_file')]_vars

\* a run found a pending draft, called post_tweet for it and went on with
\* an empty pending list
C11_Witness ==
    /\ flow = "processor" /\ pc = "p1_search"
    /\ loc.resp.called
    /\ loc.start.files.pending # <<>>
    /\ pending_file = <<>>

\* C12 (no lost approval), as claimed: between runs, every tweet id whose
\* approve interaction the gate acknowledged is in the persisted pending list
\* or is recorded as replied, whatever crashes happened.
C12_NoLostApproval ==
    (program \in {"main", "processor"} /\ flow = "idle") =>
        \A id \in Ids :
            approvals[id] > 0 =>
                \/ id \in Range(IF program = "main" THEN state_json ELSE replied_file)
                \/ \E i \in 1..Len(pending_file) : pending_file[i].tweet_id = id

\* the text messages of the operator's chat, which the router is to process
ChatTexts == {i \in 1..Len(tg_log) : tg_log[i].kind = "message" /\ tg_log[i].action # "foreign"}

\* the gate messages so far: _process_text sends one for each text it drafts
GateMessages == {m \in 1..Len(tg_msgs) : tg_msgs[m].gate}

\* C13 (durable cursor), as claimed: the router processes no text message
\* twice, whatever crashes happen, and skips none: between runs, every text
\* message the server will not deliver again has been processed.
C13_ExactlyOnce ==
    program = "router" =>
        /\ Cardinality(GateMessages) <= Cardinality(ChatTexts)
        /\ flow = "idle" =>
                Cardinality({i \in ChatTexts : i <= tg_confirmed}) <= Cardinality(GateMessages)

\* the acknowledgments sent for callbacks on message m
AcksFor(m) == {k \in 1..Len(tg_acks) : tg_log[tg_acks[k]].message_id = m}

\* send_drafts is polling, or has just returned to its caller
InGateCall == pc = "gate_poll" \/ (pc = loc.g_ret /\ GateReturned)

C15_GateTerminates ==
    /\ [](loc.approval.action \in {"none", "approve", "skip", "timeout"})
    /\ [](loc.approval.action = "approve" =>
            /\ loc.approval.tweet_id = CallbackId(loc.g_drafts[1].tweet_id)
            /\ loc.approval.text = loc.g_drafts[1].text)
    /\ [](pc = "gate_poll" => loc.g_elapsed < WINDOW + LONG_POLL + SLEEP)
    /\ (pc = "gate_send") ~> ((pc = loc.g_ret /\ GateReturned) \/ pc = "idle")

\* the loop ran until the window was over and the call returned timeout
C15_Witness ==
    /\ pc = loc.g_ret /\ loc.approval.action = "timeout"
    /\ loc.g_elapsed >= WINDOW

\* the call met one of the failures: credentials missing, token refresh
\* failed, or the create-post request was not answered with a 201 that parses
PublishFailure ==
    \/ ~pt_in.env.creds
    \/ pt_in.env.token # "ok"
    \/ pt_in.env.script[1] # Http(201)

\* C16 (publisher never throws): post_tweet raises nothing to its caller,
\* and on every failure outcome it returns success = false.
C16_PublisherNeverThrows ==
    pt_out # NoCall =>
        /\ ~pt_out.r.raised
        /\ PublishFailure => ~pt_out.r.success

\* requests.post raised inside _post_tweet_with_token and the call returned
C16_Witness ==
    /\ PosterReady
    /\ pt_in.env.script[1] \in {NetworkError, BadJson}
    /\ ~pt_out.r.success

\* C17 (collector never fails the caller), as claimed: search_recent_topics
\* and search_kol_recent return a list and raise nothing, whatever the
\* provider does.
C17_CollectorNeverRaises ==
    cl_out # NoCall => (~cl_out.topics.raised /\ ~cl_out.kol.raised)

\* C18 (fallback chain): the strategies are tried in their fixed order, the
\* next one exactly when all before it returned an empty list, and the posts
\* used are those of the last one tried, never a merge.
C18_FallbackChain ==
    cl_out # NoCall =>
        LET api2 == search_recent_topics(cl_in.topics, 2).posts
            api3 == search_recent_topics(cl_in.topics, 3).posts
            kol == search_kol_recent(cl_in.kol, 1)
            web == search_posts(cl_in.scraper).posts
            m == cl_out.main
            d == cl_out.dev_once
        IN  /\ m.tried = IF api2 # <<>> THEN <<"api">> ELSE <<"api", "scraper">>
            /\ m.posts = IF api2 # <<>> THEN api2 ELSE web
            /\ d.tried = IF kol.raised \/ kol.posts # <<>> THEN <<"kol">>
                         ELSE IF api3 # <<>> THEN <<"kol", "api">>
                         ELSE <<"kol", "api", "scraper">>
            /\ d.posts = IF kol.raised THEN <<>>
                         ELSE IF kol.posts # <<>> THEN kol.posts
                         ELSE IF api3 # <<>> THEN api3
                         ELSE web

\* the API search found posts and the scraper would have found some too
C18_Witness ==
    /\ cl_out # NoCall
    /\ cl_out.topics.posts # <<>>
    /\ cl_out.scraper.posts # <<>>
    /\ cl_out.scraper.posts # cl_out.topics.posts
    /\ cl_out.main.tried = <<"api">>

\* the first position of an id in a list of posts
FirstIndex(M, id) == SetMin({i \in 1..Len(M) : M[i].tweet_id = id})

\* out holds, in the order of M, the first record of every non-empty id of M
IsFirstOccurrences(out, M) ==
    /\ \A k \in 1..Len(out) : out[k].tweet_id # ""
    /\ \A k, l \in 1..Len(out) : k # l => out[k].tweet_id # out[l].tweet_id
    /\ {out[k].tweet_id : k \in 1..Len(out)} = {M[i].tweet_id : i \in 1..Len(M)} \ {""}
    /\ \A k \in 1..Len(out) : out[k] = M[FirstIndex(M, out[k].tweet_id)]
    /\ \A k, l \in 1..Len(out) :
            k < l => FirstIndex(M, out[k].tweet_id) < FirstIndex(M, out[l].tweet_id)

\* the posts search_posts filters and de-duplicates, as standardized posts
ScraperMerged ==
    LET kept == _filter_posts(cl_in.scraper.cards)
    IN  [k \in 1..Len(kept) |-> PostOf(kept[k])]

\* C19 (batch uniqueness): what search_recent_topics and search_posts return
\* has no id twice and no empty id; it holds the first record of each id of
\* the merged per-topic results, in their order.
C19_BatchUniqueness ==
    cl_out # NoCall =>
        /\ IsFirstOccurrences(cl_out.topics.posts, MergeTopics(cl_in.topics, 2))
        /\ IsFirstOccurrences(cl_out.scraper.posts, ScraperMerged)

\* two topics returned the same id with different records, and the page
\* delivered a card without an id
C19_Witness ==
    /\ cl_out # NoCall
    /\ LET M == MergeTopics(cl_in.topics, 2)
       IN  \E i, j \in 1..Len(M) : i < j /\ M[i].tweet_id = M[j].tweet_id /\ M[i] # M[j]
    /\ \E i \in 1..Len(cl_in.scraper.cards) : cl_in.scraper.cards[i].tweet_id = ""

\* C20 (generation failure isolation): write_reply is called once for every
\* post that passes the filter, whether or not an earlier call raised; the
\* candidates are those posts without the ones whose call raised, in order.
C20_FailureIsolation ==
    (/\ flow \in {"main", "processor"}
     /\ loc.g_ret # "none"
     /\ pc \in {"gate_send", "gate_poll", loc.g_ret} \/ loc.approval.action = "none") =>
        /\ loc.drafted =
             IdsOf(IF flow = "main" THEN main_drafted(loc.posts, loc.replied_ids)
                   ELSE p1_drafted(loc.posts, loc.replied_ids, loc.pending))
        /\ \A i, j \in 1..Len(loc.drafted) : i # j => loc.drafted[i] # loc.drafted[j]
        /\ IdsOf(loc.g_drafts) =
             SelectSeq(loc.drafted, LAMBDA id : id \notin Range(loc.failed))

\* the call for the first post raised and the second post became a candidate
C20_Witness ==
    /\ pc = "gate_send"
    /\ Len(loc.drafted) = 2
    /\ loc.failed = <<loc.drafted[1]>>
    /\ IdsOf(loc.g_drafts) = <<loc.drafted[2]>>

\* C21 (ConfigError is fatal before any network call), as claimed: when a
\* publishing credential is missing, the run has issued no search, no
\* generation and no chat request.
C21_ConfigErrorFatal ==
    loc.resp.error = "missing_env" =>
        /\ loc.posts = <<>>
        /\ loc.drafted = <<>>
        /\ loc.g_msg = 0

\* the file is missing or json.load rejects it
Unreadable == st_in.file.kind \in {"missing", "malformed"}

\* C22 (state corruption recovery): loading a state file that is missing or
\* not parsable raises nothing and yields the empty list, and the save that
\* follows writes the list that holds the new entry alone.
C22_CorruptionRecovery ==
    (st_out # NoCall /\ Unreadable) =>
        /\ ~st_out.load.raised
        /\ st_out.load.value = <<>>
        /\ st_out.step = "saved" => st_out.file = JsonFile(<<st_in.entry>>)

\* the dump of a list of two was cut short; the save replaced it
C22_Witness ==
    /\ st_out # NoCall
    /\ st_out.step = "saved"
    /\ st_in.file.kind = "malformed"
    /\ Len(st_in.file.value) = 2

\* C23 (dry run): with the dry-run flag on, which it is when DRY_RUN is not
\* set, dev_once never calls post_tweet, and it discovers the same posts,
\* calls write_reply for the same posts and gets the same drafts as the run
\* with the flag off.
C23_DryRun ==
    cl_out # NoCall =>
        /\ cl_in.DRY_RUN = "unset" => cl_out.dry_run
        /\ cl_out.dry_run =>
            /\ cl_out.run.posted = <<>>
            /\ cl_out.run.tried = cl_out.flipped.tried
            /\ cl_out.run.discovered = cl_out.flipped.discovered
            /\ cl_out.run.generated = cl_out.flipped.generated
            /\ cl_out.run.drafts = cl_out.flipped.drafts

\* the flag was left at its default, two posts were drafted, and the run
\* with the flag off would have published them
C23_Witness ==
    /\ cl_out # NoCall
    /\ cl_in.DRY_RUN = "unset"
    /\ Len(cl_out.run.drafts) = 2
    /\ Len(cl_out.flipped.posted) = 2

\* the invocations that have called post_tweet for the tweet id
OvPosted(id) ==
    {p \in Procs : ov[p].draft.tweet_id = id
                   /\ ov[p].pc \in {"replied_load", "replied_write", "save_pending", "done"}}

\* C24 (no internal locking): no step of an invocation of
\* process_approved_drafts ever waits for another invocation, whatever the
\* other one is doing to the same files; every invocation that found the
\* list non-empty calls post_tweet once for the head it loaded.
C24_NoMutualExclusion ==
    /\ \A p \in Procs : ov[p].pc # "done" => ENABLED OvStep(p)
    /\ \A id \in Ids : pt_count[id] = Cardinality(OvPosted(id))
    /\ \A p \in Procs : ov[p].loaded # <<>> /\ ov[p].pc # "post" => ov[p].calls = 1

\* post_tweet was invoked twice for the draft of t1, and the replied list
\* lacks t2 although an invocation posted it and completed save_replied
C24_Witness ==
    /\ pt_count["t1"] = 2
    /\ \A p \in Procs : ov[p].pc = "done"
    /\ OvPosted("t2") # {}
    /\ "t2" \notin Range(replied_file)

\* C25 (one pending draft per invocation): an invocation of
\* process_approved_drafts calls post_tweet at most once, for the head of
\* the list it loaded, and the list it writes back is the loaded one
\* without its head, the other drafts in their order.
C25_OnePendingPerInvocation ==
    /\ [](\A p \in Procs :
            /\ ov[p].calls <= 1
            /\ ov[p].calls = 1 => ov[p].draft = ov[p].loaded[1]
            /\ ov[p].pc = "done" /\ ov[p].loaded # <<>> =>
                    ov[p].pending = Tail(ov[p].loaded))
    /\ [][\A p \in Procs :
            (ov[p].pc = "save_pending" /\ ov'[p].pc # "save_pending") =>
                pending_file' = Tail(ov[p].loaded)]_vars

\* an invocation found two drafts, posted the first and left the second
C25_Witness ==
    \E p \in Procs :
        /\ ov[p].pc = "done"
        /\ Len(ov[p].loaded) = 2
        /\ ov[p].calls = 1
        /\ pending_file = <<ov[p].loaded[2]>>

\* the tweet ids of the drafts in a pending list
PendingIds(pending) == {pending[i].tweet_id : i \in 1..Len(pending)}

\* process_new_messages has drafted and has not yet acted on the gate's answer
P1Drafted == flow = "processor" /\ pc \in {"gate_send", "gate_poll", "p1_gate_ret"}

\* C26 (pending posts are not re-drafted): in process_new_messages a post
\* whose id is the tweet_id of a draft in the persisted pending list is not
\* passed to write_reply and is in no candidate list sent to the gate, so
\* the gate never approves an id that is in the pending list.
C26_PendingNotRedrafted ==
    P1Drafted =>
        /\ loc.pending = pending_file
        /\ \A id \in PendingIds(pending_file) :
                /\ id \notin Range(loc.drafted)
                /\ \A i \in 1..Len(loc.g_drafts) : loc.g_drafts[i].tweet_id # id
        /\ loc.approval.action = "approve" =>
                loc.approval.tweet_id \notin PendingIds(pending_file)

\* the search returned a post that is pending next to a new one, and the
\* new one was approved
C26_Witness ==
    /\ P1Drafted /\ pc = "p1_gate_ret"
    /\ loc.approval.action = "approve"
    /\ \E i \in 1..Len(loc.posts) : loc.posts[i].tweet_id \in PendingIds(pending_file)

\* the first n answers of the endpoint are 429
RateLimited(env, n) == \A i \in 1..n : Answer(env.script, i) = Http(429)

\* what C27 says of one search call c made in the environment env
RetryBound(c, env) ==
    /\ c.requests <= 3
    /\ RateLimited(env, c.requests - 1)
    /\ c.requests < 3 => (~env.creds \/ ~RateLimited(env, c.requests))
    /\ env.creds => c.requests >= 1
    /\ (env.creds /\ RateLimited(env, 3)) =>
            (c.requests = 3 /\ ~c.raised /\ c.posts = <<>>)

\* C27 (search retry bound): one call of search_recent_for_topic or of
\* search_kol_recent sends at most 3 requests, a further one only after a
\* 429, none after the first answer that is not a 429; after three 429 it
\* returns the empty list.
C27_SearchRetryBound ==
    cl_out # NoCall =>
        /\ RetryBound(cl_out.topic, cl_in.topics[1])
        /\ RetryBound(cl_out.kol, cl_in.kol)

\* the endpoint would have answered the fourth request
C27_Witness ==
    /\ cl_out # NoCall
    /\ cl_in.topics[1].script = <<Http(429), Http(429), Http(429), Http(200)>>
    /\ cl_in.kol.script = <<Http(429), Http(200)>>
    /\ cl_out.topic.requests = 3 /\ cl_out.topic.posts = <<>>
    /\ cl_out.kol.requests = 2 /\ cl_out.kol.posts # <<>>

\* C28 (only the head draft can be approved): when the gate was given
\* several candidates, an approve carries the tweet id and the text of the
\* first one, and in that run no other candidate is published, added to the
\* pending list or added to the replied list.
C28_HeadOnly ==
    (flow \in {"main", "processor"} /\ Len(loc.g_drafts) >= 2) =>
        /\ loc.approval.action = "approve" =>
                /\ loc.approval.tweet_id = loc.g_drafts[1].tweet_id
                /\ loc.approval.text = loc.g_drafts[1].text
        /\ \A i \in 2..Len(loc.g_drafts) :
                /\ pt_count[loc.g_drafts[i].tweet_id] = loc.start.calls[loc.g_drafts[i].tweet_id]
                /\ loc.g_drafts[i].tweet_id \notin PendingIds(pending_file)
                /\ loc.g_drafts[i].tweet_id \notin Range(RepliedList)

\* two candidates were listed, the operator approved, the run published
\* the first and ended
C28_Witness ==
    /\ flow = "main" /\ pc = "done"
    /\ Len(loc.g_drafts) = 2
    /\ loc.approval.action = "approve"
    /\ loc.resp.called
    /\ loc.g_drafts[1].tweet_id \in Range(state_json)

\* a run is at its end, or no run is under way
BetweenRuns == pc = "done" \/ flow = "idle"

\* C29 (bounded pending backlog): in serialized complete runs of
\* telegram_processor.main that start from an empty pending list, the list
\* holds at most one draft at the end of every run; post_tweet has not been
\* invoked for a draft that is pending at the end of a run, and the run
\* that finds a draft pending invokes post_tweet for it.
C29_BoundedBacklog ==
    program = "processor" =>
        /\ BetweenRuns => Len(pending_file) <= 1
        /\ BetweenRuns => \A id \in PendingIds(pending_file) : pt_count[id] = 0
        /\ (pc = "done" /\ loc.start.files.pending # <<>>) =>
                /\ pt_count[loc.start.files.pending[1].tweet_id] = 1
                /\ loc.start.files.pending[1] \notin Range(pending_file)

\* a run published the draft the run before it had stored, and stored an
\* approved draft of its own
C29_Witness ==
    /\ program = "processor" /\ pc = "done"
    /\ loc.start.files.pending # <<>>
    /\ Len(pending_file) = 1
    /\ pending_file[1].tweet_id # loc.start.files.pending[1].tweet_id
    /\ pt_count[loc.start.files.pending[1].tweet_id] = 1

NoDuplicates(q) == \A i, j \in 1..Len(q) : i # j => q[i] # q[j]

\* C30 (replied/pending consistency): in serialized calls of
\* process_new_messages and process_approved_drafts that run to their end,
\* at the end of every call no tweet id is both replied and pending, and no
\* tweet id is twice in either list.
C30_RepliedPendingConsistency ==
    BetweenRuns =>
        /\ PendingIds(pending_file) \cap Range(replied_file) = {}
        /\ NoDuplicates(IdsOf(pending_file))
        /\ NoDuplicates(replied_file)

\* two calls of process_new_messages stored a draft each, and a call of
\* process_approved_drafts published the first
C30_Witness ==
    /\ program = "phases" /\ pc = "done"
    /\ Len(loc.start.files.pending) = 2
    /\ Len(pending_file) = 1
    /\ replied_file = <<loc.start.files.pending[1].tweet_id>>

====
